---------------------------- MODULE Spec2Model ----------------------------
(***************************************************************************)
(* A model of png-metadata (src/mod.ts): the PNG chunk codec               *)
(* (extractChunks, encodeChunks), the tEXt codec (textEncode, textDecode)  *)
(* and the metadata mapper (readMetadata, insertMetadata, writeMetadata).  *)
(*                                                                         *)
(* Representation.  A Uint8Array is a sequence of numbers in 0..255; the   *)
(* JavaScript index i is the TLA+ index i + 1.  A JavaScript string is the *)
(* sequence of its UTF-16 code units.  A thrown Error is a record          *)
(* [ok |-> FALSE, err |-> <tag>], a returned value [ok |-> TRUE, ...].     *)
(* TLC's integers are 32-bit signed, so an Int32 is an integer and an      *)
(* unsigned 32-bit quantity is kept as its four big-endian bytes or as its *)
(* two 16-bit halves.                                                      *)
(***************************************************************************)
EXTENDS Integers, Sequences, FiniteSets, TLC

Byte == 0..255

(***************************************************************************)
(* Bitwise helpers on bytes.                                               *)
(***************************************************************************)
RECURSIVE XorBits(_, _, _)
XorBits(a, b, n) ==
  IF n = 0 THEN 0
  ELSE ((a + b) % 2) + 2 * XorBits(a \div 2, b \div 2, n - 1)

\* a ^ b on 4-bit values, tabulated once.
XorNibble == [a \in 0..15 |-> [b \in 0..15 |-> XorBits(a, b, 4)]]

\* a ^ b on bytes.
Xor8(a, b) ==
  16 * XorNibble[a \div 16][b \div 16] + XorNibble[a % 16][b % 16]

\* a ^ b on 32-bit words held as four big-endian bytes.
Xor32(a, b) == [i \in 1..4 |-> Xor8(a[i], b[i])]

\* w >>> 1 on a 32-bit word held as four big-endian bytes.
Shr1(w) ==
  [i \in 1..4 |->
     (w[i] \div 2) + (IF i > 1 /\ w[i - 1] % 2 = 1 THEN 128 ELSE 0)]

\* w >>> 8 on a 32-bit word held as four big-endian bytes.
Shr8(w) == <<0, w[1], w[2], w[3]>>

(***************************************************************************)
(* CRC32 (the imported crc32 of @deno-library/crc32): reflected polynomial *)
(* 0xEDB88320, initial value and final xor 0xFFFFFFFF.                     *)
(***************************************************************************)
CrcPoly == <<237, 184, 131, 32>>

RECURSIVE CrcStep(_, _)
CrcStep(w, n) ==
  IF n = 0 THEN w
  ELSE CrcStep(IF w[4] % 2 = 1 THEN Xor32(Shr1(w), CrcPoly) ELSE Shr1(w),
               n - 1)

CrcTable == [n \in Byte |-> CrcStep(<<0, 0, 0, n>>, 8)]

RECURSIVE CrcUpdate(_, _, _)
CrcUpdate(crc, buf, i) ==
  IF i > Len(buf) THEN crc
  ELSE CrcUpdate(Xor32(Shr8(crc), CrcTable[Xor8(crc[4], buf[i])]), buf, i + 1)

\* crc32(buf) as its four big-endian bytes (the eight hex digits, in pairs).
crc32(buf) ==
  Xor32(CrcUpdate(<<255, 255, 255, 255>>, buf, 1), <<255, 255, 255, 255>>)

\* DataView.getInt32(0): four big-endian bytes read as a signed 32-bit number.
getInt32(b) ==
  (IF b[1] >= 128 THEN b[1] - 256 ELSE b[1]) * 16777216
  + b[2] * 65536 + b[3] * 256 + b[4]

crc32buf(buf) == getInt32(crc32(buf))

(***************************************************************************)
(* The scratch buffer of lines 16-18: uint8, int32 and uint32 are views of *)
(* the same four bytes (little-endian host), always filled and drained as  *)
(* uint8[3], uint8[2], uint8[1], uint8[0], that is most significant first. *)
(***************************************************************************)
\* int32[0] after uint8[3..0] were set to b[1..4].
Int32View(b) == getInt32(b)

\* (mutant) the four bytes written out least significant first.
Uint8ViewReversed(v) ==
  <<v % 256, (v \div 256) % 256, (v \div 65536) % 256, (v \div 16777216) % 256>>

\* uint8[3..0] after int32[0] (or uint32[0]) was set to v.
Uint8View(v) ==
  <<(v \div 16777216) % 256, (v \div 65536) % 256, (v \div 256) % 256, v % 256>>

\* Storing data[i] into a Uint8Array: an index past the end reads undefined,
\* which is stored as 0.
Get(data, i) == IF i < Len(data) THEN data[i + 1] ELSE 0

\* data[from .. from + n - 1] stored into a Uint8Array of n bytes.
GetBytes(data, from, n) == [k \in 1..n |-> Get(data, from + k - 1)]

IHDR == <<73, 72, 68, 82>>
IDAT == <<73, 68, 65, 84>>
IEND == <<73, 69, 78, 68>>
tEXt == <<116, 69, 88, 116>>
pHYs == <<112, 72, 89, 115>>

Signature == <<137, 80, 78, 71, 13, 10, 26, 10>>

Throw(e) == [ok |-> FALSE, err |-> e]

ErrHeader == "Invalid .png file header"
ErrLineEnding == "Invalid .png file header: possibly caused by DOS-Unix line ending conversion?"
ErrNoIHDR == "IHDR header missing"
ErrCRC == "CRC values for <name> header do not match, PNG file is likely corrupted"
ErrNoIEND == ".png file ended prematurely: no IEND header was found"
ErrAlloc == "RangeError: Invalid typed array length"

\* Lines 168-184: the eight signature checks, in order.
HeaderCheck(data) ==
  LET bad == {i \in 0..7 : i >= Len(data) \/ data[i + 1] # Signature[i + 1]}
      first == CHOOSE i \in bad : \A j \in bad : i <= j
  IN  IF bad = {} THEN "ok"
      ELSE IF first \in {4, 5, 7} THEN ErrLineEnding
      ELSE ErrHeader

\* Lines 190-260: the while loop.  A declared length of 65536 or more makes
\* new Uint8Array(length) allocate up to 4 GiB or throw, depending on the
\* engine; no buffer of the model declares one, and the loop stops there.
\* (mutant) the checksum compared before the type is looked at.
ChunkVerdictCrcFirst(chunks, name, chunk, stored) ==
  IF crc32buf(chunk) # getInt32(stored) THEN "corrupted"
  ELSE IF Len(chunks) = 0 /\ name # IHDR THEN "missing"
  ELSE IF name = IEND THEN "ended"
  ELSE "push"

\* Lines 213-250: what the loop does with the chunk just framed, chunks being
\* the chunks pushed so far, name its type, chunk its type and payload bytes
\* and stored the four bytes read as its checksum (read only when the chunk is
\* neither a misplaced first chunk nor IEND).
ChunkVerdict(chunks, name, chunk, stored) ==
  IF Len(chunks) = 0 /\ name # IHDR THEN "missing"
  ELSE IF name = IEND THEN "ended"
  ELSE IF crc32buf(chunk) # Int32View(stored) THEN "corrupted"
  ELSE "push"

RECURSIVE ExtractLoop(_, _, _)
ExtractLoop(data, idx, chunks) ==
  IF ~(idx < Len(data)) THEN Throw(ErrNoIEND)
  ELSE
    LET lenBytes == GetBytes(data, idx, 4)
        name == GetBytes(data, idx + 4, 4)
    IN  IF lenBytes[1] # 0 \/ lenBytes[2] # 0 THEN Throw(ErrAlloc)
        ELSE
          LET length == lenBytes[3] * 256 + lenBytes[4] + 4
              payload == GetBytes(data, idx + 8, length - 4)
              crcIdx == idx + 8 + (length - 4)
              verdict == ChunkVerdict(chunks, name, name \o payload,
                                      GetBytes(data, crcIdx, 4))
          IN  CASE verdict = "missing" -> Throw(ErrNoIHDR)
                [] verdict = "ended" ->
                     [ok |-> TRUE,
                      chunks |-> Append(chunks, [name |-> name, data |-> <<>>])]
                [] verdict = "corrupted" ->
                     [ok |-> FALSE, err |-> ErrCRC, name |-> name]
                [] OTHER ->
                     ExtractLoop(data, crcIdx + 4,
                                 Append(chunks, [name |-> name, data |-> payload]))

\* Lines 167-267.
extractChunks(data) ==
  IF HeaderCheck(data) # "ok" THEN Throw(HeaderCheck(data))
  ELSE ExtractLoop(data, 8, <<>>)

\* name.charCodeAt(i) stored into a Uint8Array: NaN (no such character) is 0.
CharCodeByte(name, i) == IF i < Len(name) THEN name[i + 1] % 256 ELSE 0

\* Lines 297-330: one chunk's bytes.
EncodeChunk(chunk) ==
  LET size == Len(chunk.data)
      nameChars == [i \in 1..4 |-> CharCodeByte(chunk.name, i - 1)]
      crcCheck == nameChars \o chunk.data
  IN  Uint8View(size) \o nameChars \o chunk.data \o Uint8View(crc32buf(crcCheck))

RECURSIVE EncodeFrom(_, _)
EncodeFrom(chunks, i) ==
  IF i > Len(chunks) THEN <<>>
  ELSE EncodeChunk(chunks[i]) \o EncodeFrom(chunks, i + 1)

\* Lines 276-333.
encodeChunks(chunks) == Signature \o EncodeFrom(chunks, 1)

(***************************************************************************)
(* The tEXt codec.                                                         *)
(***************************************************************************)
ErrLatin1 == "Only Latin-1 characters are permitted in PNG tEXt chunks"
ErrKeywordLong == "Keyword is longer than the 79-character limit imposed by the PNG specification"
ErrNulKeyword == "0x00 character is not permitted in tEXt keywords"
ErrNulContent == "0x00 character is not permitted in tEXt content"
ErrNulText == "Invalid NULL character found. 0x00 character is not permitted in tEXt content"

KeywordLimit == 80

\* /^[\x00-\xFF]+$/.test(s)
IsLatin1(s) == Len(s) > 0 /\ \A i \in 1..Len(s) : s[i] <= 255

\* (mutant) code units masked to seven bits.
StoreCharsAscii(s) == [i \in 1..Len(s) |-> s[i] % 128]

\* A string's code units stored into a Uint8Array.
StoreChars(s) == [i \in 1..Len(s) |-> s[i] % 256]

\* Lines 61-115.
textEncode(keyword, content, chunkName) ==
  IF Len(content) # 0 /\ (~IsLatin1(keyword) \/ ~IsLatin1(content))
    THEN Throw(ErrLatin1)
  ELSE IF Len(keyword) >= KeywordLimit THEN Throw(ErrKeywordLong)
  ELSE IF \E i \in 1..Len(keyword) : keyword[i] = 0 THEN Throw(ErrNulKeyword)
  ELSE IF \E j \in 1..Len(content) : content[j] = 0 THEN Throw(ErrNulContent)
  ELSE [ok |-> TRUE,
        chunk |-> [name |-> chunkName,
                   data |-> StoreChars(keyword) \o <<0>> \o StoreChars(content)]]

\* Lines 123-157, given the payload: the loop appends every byte before the
\* first 0x00 to name (String.fromCharCode of a byte is the code unit of the
\* same value), skips that 0x00, appends every byte after it to text, and
\* throws at a second 0x00.
textDecode(bin) ==
  LET nuls == {i \in 1..Len(bin) : bin[i] = 0}
      naming == CHOOSE i \in nuls : \A j \in nuls : i <= j
  IN  IF nuls = {} THEN [ok |-> TRUE, keyword |-> bin, text |-> <<>>]
      ELSE IF Cardinality(nuls) > 1 THEN Throw(ErrNulText)
      ELSE [ok |-> TRUE,
            keyword |-> SubSeq(bin, 1, naming - 1),
            text |-> SubSeq(bin, naming + 1, Len(bin))]

\* Line 127: a chunk is read through its data.
textDecodeChunk(chunk) == textDecode(chunk.data)

(***************************************************************************)
(* The metadata mapper.  A JavaScript number holding an unsigned 32-bit    *)
(* value is the pair <<hi, lo>> of its 16-bit halves; what readUint32      *)
(* returns is an Int32 and is an integer.                                  *)
(***************************************************************************)
\* undefined, where a number is expected (a value no byte takes).
Undefined == -1

\* Lines 341-347: 0 | (byte1 << 24) | (byte2 << 16) | (byte3 << 8) | byte4, an
\* Int32; a byte past the end is undefined and shifts to 0.
readUint32(uint8array, offset) ==
  LET b == GetBytes(uint8array, offset, 4)
  IN  (IF b[1] >= 128 THEN b[1] - 256 ELSE b[1]) * 16777216
      + b[2] * 65536 + b[3] * 256 + b[4]

\* ToInt32 of a number in 0 .. 2^32 - 1, as the bitwise operators apply it.
ToInt32(num) ==
  (IF num[1] >= 32768 THEN num[1] - 65536 ELSE num[1]) * 65536 + num[2]

\* Lines 355-360: the four bytes stored at offset .. offset + 3.
writeUInt32(num) ==
  LET v == ToInt32(num)
      m24 == v - (v % 16777216)                   \* num & 0xff000000
      m16 == (v % 16777216) - (v % 65536)         \* num & 0x00ff0000
      m8  == (v % 65536) - (v % 256)              \* num & 0x0000ff00
      m0  == v % 256                              \* num & 0x000000ff
  IN  <<(m24 \div 16777216) % 256, m16 \div 65536, m8 \div 256, m0>>

NoMetadata ==
  [hasText |-> FALSE, text |-> <<>>, hasPhys |-> FALSE, phys |-> <<>>,
   flags |-> {}]

\* "__proto__"
ProtoKey == <<95, 95, 112, 114, 111, 116, 111, 95, 95>>

\* Lines 386-390: result.tEXt[textChunk.keyword] = textChunk.text, result.tEXt
\* being the plain object {} of line 387.  Where Object.prototype has the
\* __proto__ accessor (Node.js, browsers: legacyProto), assigning a string to
\* the key "__proto__" calls the inherited setter, which ignores it: no entry
\* is stored.  Where it has not (Deno removes it), the key is an entry like
\* any other.
SetText(result, textChunk, legacyProto) ==
  IF legacyProto /\ textChunk.keyword = ProtoKey
    THEN [result EXCEPT !.hasText = TRUE]
    ELSE [result EXCEPT !.hasText = TRUE,
                        !.text = (textChunk.keyword :> textChunk.text) @@ @]

\* Lines 383-410: the fold over chunks[i..], result being the object so far.
RECURSIVE ReadLoop(_, _, _, _)
ReadLoop(chunks, i, result, legacyProto) ==
  IF i > Len(chunks) THEN [ok |-> TRUE, metadata |-> result]
  ELSE
    LET chunk == chunks[i]
    IN  IF chunk.name = tEXt
          THEN LET textChunk == textDecode(chunk.data)
               IN  IF ~textChunk.ok THEN textChunk
                   ELSE ReadLoop(chunks, i + 1,
                                 SetText(result, textChunk, legacyProto),
                                 legacyProto)
        ELSE IF chunk.name = pHYs
          THEN ReadLoop(chunks, i + 1,
                 [result EXCEPT
                    !.hasPhys = TRUE,
                    !.phys = [x |-> readUint32(chunk.data, 0),
                              y |-> readUint32(chunk.data, 4),
                              unit |-> IF Len(chunk.data) > 8 THEN chunk.data[9]
                                       ELSE Undefined]],
                 legacyProto)
        ELSE ReadLoop(chunks, i + 1,
               [result EXCEPT !.flags = @ \cup {chunk.name}], legacyProto)

\* Lines 379-413, on a runtime with (legacyProto) or without the __proto__
\* accessor.
readMetadata(buffer, legacyProto) ==
  LET ex == extractChunks(buffer)
  IN  IF ~ex.ok THEN ex ELSE ReadLoop(ex.chunks, 1, NoMetadata, legacyProto)

ErrTypeError == "TypeError: Cannot read properties of undefined (reading 'name')"

\* (mutant) the chunk after index i is the one removed.
RemoveNext(chunks, i) ==
  SubSeq(chunks, 1, i + 1) \o SubSeq(chunks, i + 3, Len(chunks))

\* chunks.splice(i, 1), i a 0-based index of chunks.
Remove(chunks, i) == SubSeq(chunks, 1, i) \o SubSeq(chunks, i + 2, Len(chunks))

\* (mutant) the chunk is pushed at the end.
InsertAtEnd(chunks, start, chunk) == Append(chunks, chunk)

\* chunks.splice(start, 0, chunk), start a 0-based index in 0..chunks.length.
InsertAt(chunks, start, chunk) ==
  SubSeq(chunks, 1, start) \o <<chunk>> \o SubSeq(chunks, start + 1, Len(chunks))

Max(a, b) == IF a > b THEN a ELSE b
Min(a, b) == IF a < b THEN a ELSE b

\* (mutant) tEXt listed among the cases that break.
KeptByClearText == {IHDR, IDAT, IEND, tEXt}

\* Lines 437-440: the types the clear loop leaves in place.
KeptByClear == {IHDR, IDAT, IEND}

\* Lines 435-444: for (let i = ...; i--; ) from the test of i on.
RECURSIVE ClearLoop(_, _)
ClearLoop(chunks, i) ==
  IF i = 0 THEN [ok |-> TRUE, chunks |-> chunks]
  ELSE IF i - 1 < 0 \/ i - 1 >= Len(chunks)
    THEN [ok |-> FALSE, err |-> ErrTypeError, chunks |-> chunks]
  ELSE IF chunks[i].name \in KeptByClear THEN ClearLoop(chunks, i - 1)
  ELSE ClearLoop(Remove(chunks, i - 1), i - 1)

\* Lines 446-450: the entries of metadata.tEXt from the i-th on, in the order
\* of Object.keys.
RECURSIVE TextLoop(_, _, _)
TextLoop(chunks, entries, i) ==
  IF i > Len(entries) THEN [ok |-> TRUE, chunks |-> chunks]
  ELSE
    LET enc == textEncode(entries[i].keyword, entries[i].text, tEXt)
    IN  IF ~enc.ok THEN [ok |-> FALSE, err |-> enc.err, chunks |-> chunks]
        ELSE TextLoop(InsertAt(chunks, Max(Len(chunks) - 1, 0), enc.chunk),
                      entries, i + 1)

\* Lines 452-464.
PhysStep(chunks, phys) ==
  LET data == writeUInt32(phys.x) \o writeUInt32(phys.y) \o <<phys.unit % 256>>
      found == {i \in 1..Len(chunks) : chunks[i].name = pHYs}
      first == CHOOSE i \in found : \A j \in found : i <= j
  IN  IF found # {} THEN [chunks EXCEPT ![first].data = data]
      ELSE InsertAt(chunks, Min(1, Len(chunks)), [name |-> pHYs, data |-> data])

\* Lines 430-465: the chunk array as insertMetadata leaves it, and whether it
\* returned or threw.
insertMetadata(chunks, metadata) ==
  LET cleared == IF metadata.clear THEN ClearLoop(chunks, Len(chunks) - 1)
                 ELSE [ok |-> TRUE, chunks |-> chunks]
  IN  IF ~cleared.ok THEN cleared
      ELSE
        LET texted == IF metadata.hasText
                        THEN TextLoop(cleared.chunks, metadata.text, 1)
                        ELSE cleared
        IN  IF ~texted.ok THEN texted
            ELSE IF metadata.hasPhys
              THEN [ok |-> TRUE, chunks |-> PhysStep(texted.chunks, metadata.phys)]
            ELSE texted

\* Lines 421-428.
writeMetadata(buffer, metadata) ==
  LET ex == extractChunks(buffer)
  IN  IF ~ex.ok THEN ex
      ELSE
        LET ins == insertMetadata(ex.chunks, metadata)
        IN  IF ~ins.ok THEN Throw(ins.err)
            ELSE [ok |-> TRUE, bytes |-> encodeChunks(ins.chunks)]

(***************************************************************************)
(* Inputs.  A well-formed PNG is written down from the format (signature,  *)
(* then per chunk: length, type, payload, CRC32 of type and payload, all   *)
(* big-endian; IHDR first, one empty IEND last), independently of          *)
(* encodeChunks.                                                           *)
(***************************************************************************)
MaxMiddle == 2
MaxEntries == 2
MaxChunks == 3
MaxStr == 2

U32BE(n) ==
  <<(n \div 16777216) % 256, (n \div 65536) % 256, (n \div 256) % 256, n % 256>>

Frame(chunk) ==
  U32BE(Len(chunk.data)) \o chunk.name \o chunk.data
    \o crc32(chunk.name \o chunk.data)

RECURSIVE Frames(_, _)
Frames(cs, i) == IF i > Len(cs) THEN <<>> ELSE Frame(cs[i]) \o Frames(cs, i + 1)

Png(cs) == Signature \o Frames(cs, 1)

SeqsUpTo(S, n) == UNION {[1..k -> S] : k \in 0..n}

\* "IENE": a chunk type one bit away from IEND.
IENE == <<73, 69, 78, 69>>

\* The chunks a source image may hold between IHDR and IEND: image data, a
\* tEXt entry A -> o, a tEXt payload with a second 0x00, a pHYs record whose
\* x has its top bit set, and an unknown chunk.
MiddleChunks ==
  { [name |-> IDAT, data |-> <<7>>],
    [name |-> tEXt, data |-> <<65, 0, 111>>],
    [name |-> tEXt, data |-> <<66, 0, 0>>],
    [name |-> pHYs, data |-> <<128, 0, 0, 1, 0, 0, 2, 0, 1>>],
    [name |-> IENE, data |-> <<>>] }

Images ==
  { <<[name |-> IHDR, data |-> <<8>>]>> \o mid \o <<[name |-> IEND, data |-> <<>>]>> :
      mid \in SeqsUpTo(MiddleChunks, MaxMiddle) }

\* 0-based offset of chunk k's length field in Png(cs).
RECURSIVE ChunkStart(_, _)
ChunkStart(cs, k) ==
  IF k = 1 THEN 8 ELSE ChunkStart(cs, k - 1) + 12 + Len(cs[k - 1].data)

\* 0-based offsets of the type and payload bytes of chunk k in Png(cs).
TypeOffsets(cs, k) == (ChunkStart(cs, k) + 4)..(ChunkStart(cs, k) + 7)
PayloadOffsets(cs, k) ==
  (ChunkStart(cs, k) + 8)..(ChunkStart(cs, k) + 7 + Len(cs[k].data))

FlipBitOf(byte, bit) ==
  IF (byte \div (2 ^ bit)) % 2 = 1 THEN byte - 2 ^ bit ELSE byte + 2 ^ bit

\* Metadata records handed to writeMetadata and insertMetadata: text is the
\* tEXt mapping as the sequence of its own entries in the order of Object.keys
\* (distinct keywords), phys the pHYs record with x and y as halves.  The
\* entries: A with an empty and a non-empty text, "__proto__" (an own key, as
\* JSON.parse or a computed key makes it), a keyword holding 0x00 and a
\* keyword past Latin-1 with an empty text.
Entries ==
  { [keyword |-> <<65>>, text |-> <<>>],
    [keyword |-> <<65>>, text |-> <<120>>],
    [keyword |-> ProtoKey, text |-> <<121>>],
    [keyword |-> <<67, 0>>, text |-> <<122>>],
    [keyword |-> <<256>>, text |-> <<>>] }

EntryLists ==
  { es \in SeqsUpTo(Entries, MaxEntries) :
      \A i, j \in 1..Len(es) : i # j => es[i].keyword # es[j].keyword }

PhysRecords ==
  { [x |-> <<0, 30000>>, y |-> <<1, 2>>, unit |-> 2],
    [x |-> <<32768, 0>>, y |-> <<65535, 65535>>, unit |-> 1] }

NoPhys == [x |-> <<0, 0>>, y |-> <<0, 0>>, unit |-> 0]

Metadatas ==
  { [clear |-> c, hasText |-> ht, text |-> es, hasPhys |-> hp, phys |-> ph] :
      c \in BOOLEAN, ht \in BOOLEAN, es \in EntryLists, hp \in BOOLEAN,
      ph \in PhysRecords \cup {NoPhys} }

ValidMetadata(m) ==
  /\ (~m.hasText => m.text = <<>>)
  /\ (m.hasPhys <=> m.phys # NoPhys)

NoMeta ==
  [clear |-> FALSE, hasText |-> FALSE, text |-> <<>>, hasPhys |-> FALSE,
   phys |-> NoPhys]

\* Strings for the tEXt codec: short ones over a few code units (0x00, ASCII,
\* the top of Latin-1, the first code unit past it) and keywords around the
\* length limit.
CodeUnits == {0, 65, 255, 256}

Repeat(c, n) == [i \in 1..n |-> c]

Contents == SeqsUpTo(CodeUnits, MaxStr)

Keywords ==
  Contents \cup
  { Repeat(c, n) : c \in {65, 256},
                   n \in {KeywordLimit - 1, KeywordLimit, KeywordLimit + 1} }

\* Chunk arrays for insertMetadata called on its own: any types, each chunk
\* recognisable by its payload.
ChunkTypes == {IHDR, IDAT, IEND, tEXt}

ChunkArrays ==
  { [i \in 1..Len(ts) |-> [name |-> ts[i], data |-> <<i>>]] :
      ts \in SeqsUpTo(ChunkTypes, MaxChunks) }

NotCalled == [ok |-> FALSE, err |-> "not called"]
Intact == [kind |-> "none"]

(***************************************************************************)
(* State.                                                                  *)
(***************************************************************************)
VARIABLES
  pc,         \* where the run stands
  image,      \* the chunks the source PNG was framed from
  buffer,     \* the bytes handed to extractChunks, readMetadata, writeMetadata
  damage,     \* what was done to buffer since it was framed
  metadata,   \* the record last handed to writeMetadata or insertMetadata
  extracted,  \* what extractChunks last returned or threw
  encoded,    \* what encodeChunks last returned
  read,       \* what readMetadata last returned or threw
  keyword,    \* textEncode's keyword
  content,    \* textEncode's content
  textChunk,  \* what textEncode returned or threw
  decoded,    \* what textDecode returned or threw
  chunks,     \* the chunk array handed to insertMetadata
  inserted    \* the array as insertMetadata left it, and whether it threw

vars ==
  <<pc, image, buffer, damage, metadata, extracted, encoded, read, keyword,
    content, textChunk, decoded, chunks, inserted>>

codecVars == <<image, buffer, damage, metadata, extracted, encoded, read>>
textVars == <<keyword, content, textChunk, decoded>>
insertVars == <<chunks, inserted>>

CodecIdle ==
  /\ image = <<>> /\ buffer = <<>> /\ damage = Intact
  /\ extracted = NotCalled /\ encoded = <<>> /\ read = NotCalled
TextIdle ==
  /\ keyword = <<>> /\ content = <<>>
  /\ textChunk = NotCalled /\ decoded = NotCalled
InsertIdle == chunks = <<>> /\ inserted = NotCalled

\* A source PNG on hand, nothing called yet.
Init ==
  /\ pc = "start"
  /\ image \in Images
  /\ buffer = Png(image)
  /\ damage = Intact
  /\ metadata = NoMeta
  /\ extracted = NotCalled /\ encoded = <<>> /\ read = NotCalled
  /\ TextIdle /\ InsertIdle

(***************************************************************************)
(* The chunk codec on a source PNG, intact or damaged in transit.          *)
(***************************************************************************)
\* One bit of a chunk's type or payload is flipped; the stored checksum stays.
FlipBit ==
  /\ pc = "start"
  /\ \E k \in 1..Len(image) :
       \E at \in TypeOffsets(image, k) \cup PayloadOffsets(image, k) :
         \E bit \in 0..7 :
           /\ buffer' = [buffer EXCEPT ![at + 1] = FlipBitOf(@, bit)]
           /\ damage' = [kind |-> "flip", chunk |-> k, at |-> at, bit |-> bit]
  /\ pc' = "damaged"
  /\ UNCHANGED <<image, metadata, extracted, encoded, read>>
  /\ UNCHANGED <<textVars, insertVars>>

\* The byte stream ends early: only its first len bytes arrive.
Truncate ==
  /\ pc = "start"
  /\ \E len \in 0..(Len(buffer) - 1) :
       /\ buffer' = SubSeq(buffer, 1, len)
       /\ damage' = [kind |-> "cut", len |-> len]
  /\ pc' = "damaged"
  /\ UNCHANGED <<image, metadata, extracted, encoded, read>>
  /\ UNCHANGED <<textVars, insertVars>>

ExtractChunks ==
  /\ pc \in {"start", "damaged", "written"}
  /\ extracted' = extractChunks(buffer)
  /\ pc' = "extracted"
  /\ UNCHANGED <<image, buffer, damage, metadata, encoded, read>>
  /\ UNCHANGED <<textVars, insertVars>>

EncodeChunks ==
  /\ pc = "extracted"
  /\ extracted.ok
  /\ encoded' = encodeChunks(extracted.chunks)
  /\ pc' = "encoded"
  /\ UNCHANGED <<image, buffer, damage, metadata, extracted, read>>
  /\ UNCHANGED <<textVars, insertVars>>

Next == FlipBit \/ Truncate \/ ExtractChunks \/ EncodeChunks

Spec == Init /\ [][Next]_vars

(***************************************************************************)
(* The metadata mapper on a source PNG.                                    *)
(***************************************************************************)
\* buffer = writeMetadata(buffer, m), or the call throws.
WriteMetadata ==
  /\ pc = "start"
  /\ \E m \in Metadatas :
       /\ ValidMetadata(m)
       /\ metadata' = m
       /\ LET w == writeMetadata(buffer, m)
          IN  IF w.ok THEN buffer' = w.bytes /\ pc' = "written"
              ELSE buffer' = buffer /\ pc' = "threw"
  /\ UNCHANGED <<image, damage, extracted, encoded, read>>
  /\ UNCHANGED <<textVars, insertVars>>

\* readMetadata(buffer), on either kind of runtime.
ReadMetadata ==
  /\ pc \in {"start", "written"}
  /\ \E legacyProto \in BOOLEAN : read' = readMetadata(buffer, legacyProto)
  /\ pc' = "read"
  /\ UNCHANGED <<image, buffer, damage, metadata, extracted, encoded>>
  /\ UNCHANGED <<textVars, insertVars>>

ExtractWritten == pc = "written" /\ ExtractChunks

MetaNext == WriteMetadata \/ ReadMetadata \/ ExtractWritten

MetaSpec == Init /\ [][MetaNext]_vars

(***************************************************************************)
(* The tEXt codec.                                                         *)
(***************************************************************************)
TextInit ==
  /\ pc = "start"
  /\ keyword \in Keywords
  /\ content \in Contents
  /\ textChunk = NotCalled /\ decoded = NotCalled
  /\ metadata = NoMeta
  /\ CodecIdle /\ InsertIdle

TextEncode ==
  /\ pc = "start"
  /\ textChunk' = textEncode(keyword, content, tEXt)
  /\ pc' = "encoded"
  /\ UNCHANGED <<keyword, content, decoded>>
  /\ UNCHANGED <<codecVars, insertVars>>

\* textDecode of the chunk textEncode returned.
TextDecode ==
  /\ pc = "encoded"
  /\ textChunk.ok
  /\ decoded' = textDecodeChunk(textChunk.chunk)
  /\ pc' = "decoded"
  /\ UNCHANGED <<keyword, content, textChunk>>
  /\ UNCHANGED <<codecVars, insertVars>>

TextNext == TextEncode \/ TextDecode

TextSpec == TextInit /\ [][TextNext]_vars

(***************************************************************************)
(* insertMetadata called on a chunk array of the caller's.                 *)
(***************************************************************************)
InsertInit ==
  /\ pc = "start"
  /\ chunks \in ChunkArrays
  /\ inserted = NotCalled
  /\ metadata = NoMeta
  /\ CodecIdle /\ TextIdle

InsertMetadata ==
  /\ pc = "start"
  /\ \E m \in Metadatas :
       /\ ValidMetadata(m)
       /\ metadata' = m
       /\ inserted' = insertMetadata(chunks, m)
  /\ pc' = "inserted"
  /\ UNCHANGED <<image, buffer, damage, extracted, encoded, read>>
  /\ UNCHANGED <<textVars, chunks>>

InsertNext == InsertMetadata

InsertSpec == InsertInit /\ [][InsertNext]_vars

(***************************************************************************)
(* Properties of the chunk codec (checked under Spec).                     *)
(***************************************************************************)
\* C1: round-trip identity.  For a well-formed PNG (signature, IHDR first,
\* every stored checksum the CRC32 of type and payload, one empty IEND last
\* and nothing after it) extractChunks returns, and encodeChunks of what it
\* returned is the same byte sequence.
C1_RoundTrip ==
  damage = Intact =>
    /\ pc \in {"extracted", "encoded"} => extracted.ok
    /\ pc = "encoded" => encoded = buffer

C1_Witness ==
  /\ pc = "encoded" /\ damage = Intact
  /\ Len(image) = 4 /\ image[2].name = pHYs /\ image[3].name = tEXt
  /\ encoded = buffer

\* The chunk's type as the buffer holds it after the flip recorded in damage.
DamagedName ==
  LET k == damage.chunk
  IN  IF damage.at \in TypeOffsets(image, k)
        THEN [image[k].name EXCEPT
                ![damage.at - ChunkStart(image, k) - 3] = FlipBitOf(@, damage.bit)]
        ELSE image[k].name

\* C2 as claimed: a flipped bit in any chunk's type or payload, the first
\* IHDR and the final IEND included, makes extractChunks throw the checksum
\* error and nothing else.
C2_Original ==
  pc = "extracted" /\ damage.kind = "flip" =>
    ~extracted.ok /\ extracted.err = ErrCRC

\* C2 amended: the checksum error, naming the chunk's type as now read, for a
\* flipped bit in a payload or in the type of a chunk other than the first,
\* unless the type now reads IEND; "IHDR header missing" for a flipped bit in
\* the first chunk's type; and a type that now reads IEND ends the scan
\* there, extractChunks returning the chunks before it and an empty IEND.
C2_Amended ==
  pc = "extracted" /\ damage.kind = "flip" =>
    IF damage.chunk = 1 /\ damage.at \in TypeOffsets(image, 1)
      THEN extracted = Throw(ErrNoIHDR)
    ELSE IF DamagedName = IEND
      THEN extracted =
             [ok |-> TRUE,
              chunks |-> SubSeq(image, 1, damage.chunk - 1)
                           \o <<[name |-> IEND, data |-> <<>>]>>]
    ELSE extracted = [ok |-> FALSE, err |-> ErrCRC, name |-> DamagedName]

C2_Witness ==
  /\ pc = "extracted" /\ damage.kind = "flip"
  /\ damage.chunk = 2 /\ damage.at \in PayloadOffsets(image, 2)
  /\ extracted = [ok |-> FALSE, err |-> ErrCRC, name |-> pHYs]

\* C3 as claimed: a stream that holds the signature and the IHDR chunk and
\* ends, at any byte, before an IEND type has been read makes extractChunks
\* throw "file ended prematurely".
C3_Claim ==
  ( /\ pc = "extracted" /\ damage.kind = "cut"
    /\ damage.len >= ChunkStart(image, 2)
    /\ damage.len < ChunkStart(image, Len(image)) + 8 )
  => extracted = Throw(ErrNoIEND)

(***************************************************************************)
(* Properties of the tEXt codec (checked under TextSpec).                  *)
(***************************************************************************)
\* C4 as claimed: textEncode throws whenever keyword or content holds a code
\* unit above 255 or a 0x00, or keyword has 80 or more characters, whatever
\* the length of content, the empty content included.
C4_Claim ==
  ( /\ pc \in {"encoded", "decoded"}
    /\ \/ \E i \in 1..Len(keyword) : keyword[i] > 255 \/ keyword[i] = 0
       \/ \E j \in 1..Len(content) : content[j] > 255 \/ content[j] = 0
       \/ Len(keyword) >= 80 )
  => ~textChunk.ok

\* C5: text round trip.  For a keyword of 1 to 79 code units in 1..255 and a
\* content (possibly empty) of code units in 1..255, textEncode returns a
\* chunk whose payload has keyword.length + 1 + content.length bytes, and
\* textDecode of the chunk, or of its payload, returns the keyword and the
\* content.
C5_TextRoundTrip ==
  ( /\ Len(keyword) \in 1..79
    /\ \A i \in 1..Len(keyword) : keyword[i] \in 1..255
    /\ \A j \in 1..Len(content) : content[j] \in 1..255 )
  =>
    /\ pc \in {"encoded", "decoded"} =>
         /\ textChunk.ok
         /\ Len(textChunk.chunk.data) = Len(keyword) + 1 + Len(content)
    /\ pc = "decoded" =>
         /\ decoded = [ok |-> TRUE, keyword |-> keyword, text |-> content]
         /\ textDecode(textChunk.chunk.data) = decoded

C5_Witness ==
  /\ pc = "decoded"
  /\ Len(keyword) = 79 /\ keyword[79] = 65
  /\ content = <<255, 65>>
  /\ decoded = [ok |-> TRUE, keyword |-> keyword, text |-> content]

(***************************************************************************)
(* Properties of the metadata mapper (checked under MetaSpec).             *)
(***************************************************************************)
\* metadata is {tEXt: {k: t}} for one valid text entry.
OneValidEntry ==
  /\ ~metadata.clear /\ ~metadata.hasPhys
  /\ metadata.hasText /\ Len(metadata.text) = 1
  /\ Len(metadata.text[1].keyword) \in 1..79
  /\ \A i \in 1..Len(metadata.text[1].keyword) :
       metadata.text[1].keyword[i] \in 1..255
  /\ \A j \in 1..Len(metadata.text[1].text) : metadata.text[1].text[j] \in 1..255

ReadBack ==
  /\ read.ok
  /\ read.metadata.hasText
  /\ metadata.text[1].keyword \in DOMAIN read.metadata.text
  /\ read.metadata.text[metadata.text[1].keyword] = metadata.text[1].text

\* Every tEXt chunk of the source image holds at most one 0x00 byte.
SourceTextDecodes ==
  \A i \in 1..Len(image) :
    image[i].name = tEXt =>
      Cardinality({j \in 1..Len(image[i].data) : image[i].data[j] = 0}) <= 1

\* C6 as claimed: for every well-formed PNG and every valid entry (k, t),
\* readMetadata(writeMetadata(bytes, {tEXt: {k: t}})).tEXt[k] is t, also when
\* bytes already holds tEXt chunks with the keyword k.  The claim is taken
\* in the sense most favourable to it: of source images whose own tEXt chunks
\* readMetadata can decode.
C6_Claim == pc = "read" /\ OneValidEntry /\ SourceTextDecodes => ReadBack

ClearOnly ==
  metadata = [clear |-> TRUE, hasText |-> FALSE, text |-> <<>>,
              hasPhys |-> FALSE, phys |-> NoPhys]

IsImageChunk(c) == c.name = IHDR \/ c.name = IDAT \/ c.name = IEND

\* C7: clear semantics.  writeMetadata(bytes, {clear: true}) returns; reading
\* its result gives no tEXt mapping and no pHYs record; and the chunks of its
\* result are the IHDR, IDAT and IEND chunks of bytes, in order, payloads
\* unchanged.
C7_Clear ==
  ClearOnly =>
    /\ pc # "threw"
    /\ pc = "read" =>
         read.ok /\ ~read.metadata.hasText /\ ~read.metadata.hasPhys
    /\ pc = "extracted" =>
         /\ extracted.ok
         /\ extracted.chunks =
              SelectSeq(extractChunks(Png(image)).chunks, IsImageChunk)

C7_Witness ==
  /\ pc = "extracted" /\ ClearOnly
  /\ Len(image) = 4 /\ image[2].name = tEXt /\ image[3].name = IDAT
  /\ extracted.ok
  /\ extracted.chunks = <<image[1], image[3], image[4]>>

\* The pHYs payload readMetadata reads last in buffer.
LastPhysPayload ==
  LET cs == extractChunks(buffer).chunks
      at == {i \in 1..Len(cs) : cs[i].name = pHYs}
  IN  cs[CHOOSE i \in at : \A j \in at : j <= i].data

\* The integer v is the unsigned 32-bit number with halves num.
SameNumber(v, num) ==
  v >= 0 /\ v \div 65536 = num[1] /\ v % 65536 = num[2]

\* C9 as claimed: readMetadata returns x and y as the unsigned big-endian
\* values of payload bytes 0..3 and 4..7, never negative, and unit as byte 8;
\* so that a pHYs record written to a PNG with at most one pHYs chunk is read
\* back as written, values of 2^31 and above included.
C9_Claim ==
  pc = "read" /\ read.ok /\ read.metadata.hasPhys =>
    LET b == LastPhysPayload
        got == read.metadata.phys
    IN  /\ got.x >= 0 /\ U32BE(got.x) = SubSeq(b, 1, 4)
        /\ got.y >= 0 /\ U32BE(got.y) = SubSeq(b, 5, 8)
        /\ got.unit = b[9]
        /\ ( /\ metadata.hasPhys
             /\ Cardinality({i \in 1..Len(image) : image[i].name = pHYs}) <= 1 )
           => /\ SameNumber(got.x, metadata.phys.x)
              /\ SameNumber(got.y, metadata.phys.y)
              /\ got.unit = metadata.phys.unit

\* The payload bytes of a string of code units and of an unsigned number.
Latin1Bytes(str) == [i \in 1..Len(str) |-> str[i] % 256]
HalvesBytes(num) ==
  <<num[1] \div 256, num[1] % 256, num[2] \div 256, num[2] % 256>>

\* C10: structural validity is preserved.  Whenever writeMetadata returns,
\* extractChunks of its result returns a sequence that starts with IHDR, ends
\* with an empty IEND and holds no other IEND; the tEXt chunks of the entries
\* written sit right before IEND in the mapping's order; and a pHYs chunk
\* that had to be inserted sits at index 1.
C10_Structure ==
  pc = "extracted" =>
    /\ extracted.ok
    /\ LET cs == extracted.chunks
           n == Len(cs)
           m == Len(metadata.text)
       IN  /\ n >= 2
           /\ cs[1].name = IHDR
           /\ cs[n] = [name |-> IEND, data |-> <<>>]
           /\ \A i \in 1..(n - 1) : cs[i].name # IEND
           /\ n >= m + 2
           /\ \A j \in 1..m :
                cs[n - m - 1 + j] =
                  [name |-> tEXt,
                   data |-> Latin1Bytes(metadata.text[j].keyword) \o <<0>>
                              \o Latin1Bytes(metadata.text[j].text)]
           /\ ( /\ metadata.hasPhys
                /\ \/ metadata.clear
                   \/ \A i \in 1..Len(image) : image[i].name # pHYs )
              => cs[2] =
                   [name |-> pHYs,
                    data |-> HalvesBytes(metadata.phys.x)
                               \o HalvesBytes(metadata.phys.y)
                               \o <<metadata.phys.unit>>]

C10_Witness ==
  /\ pc = "extracted"
  /\ ~metadata.clear /\ metadata.hasPhys /\ Len(metadata.text) = 2
  /\ Len(image) = 4 /\ image[2].name = tEXt /\ image[3].name = IDAT
  /\ Len(extracted.chunks) = 7
  /\ extracted.chunks[2].name = pHYs
  /\ extracted.chunks[5].data = ProtoKey \o <<0, 121>>
  /\ extracted.chunks[6].data = <<65, 0, 120>>

(***************************************************************************)
(* Properties of insertMetadata on any chunk array (under InsertSpec).     *)
(***************************************************************************)
\* C8 as claimed: after insertMetadata(chunks, {clear: true}) on an array of
\* n >= 1 chunks, the array is the chunk that was at index 0, whatever its
\* type, followed by the chunks that were at indices 1..n-1 and have type
\* IHDR, IDAT or IEND; every other chunk, the last included, is gone.
C8_Original ==
  pc = "inserted" /\ ClearOnly /\ Len(chunks) >= 1 =>
    /\ inserted.ok
    /\ inserted.chunks = <<chunks[1]>> \o SelectSeq(Tail(chunks), IsImageChunk)

\* C8 amended: the array is the chunks that were at indices 0..n-2 and have
\* type IHDR, IDAT or IEND, in order, followed by the chunk that was at
\* index n-1, kept whatever its type: the loop never inspects the last
\* index, and it does inspect index 0.
C8_Amended ==
  pc = "inserted" /\ ClearOnly /\ Len(chunks) >= 1 =>
    /\ inserted.ok
    /\ inserted.chunks =
         SelectSeq(SubSeq(chunks, 1, Len(chunks) - 1), IsImageChunk)
           \o <<chunks[Len(chunks)]>>

C8_Witness ==
  /\ pc = "inserted" /\ ClearOnly
  /\ Len(chunks) = 3
  /\ chunks[1].name = tEXt /\ chunks[2].name = IDAT /\ chunks[3].name = tEXt
  /\ inserted.ok
  /\ inserted.chunks = <<chunks[2], chunks[3]>>

=============================================================================
